---------------------------- MODULE Spec2Model ----------------------------
(***************************************************************************)
(* A model of src/solver.py: the CP-SAT timetable engine (TimetableSolver), *)
(* its three-phase solve driver, and the job system around it (the         *)
(* active_jobs registry, start_solve, get_job_status and the background    *)
(* workers).                                                               *)
(*                                                                         *)
(* The CP-SAT library is outside the repository.  It is modelled by its    *)
(* contract: Solve(model) ends OPTIMAL with an assignment that satisfies   *)
(* every constraint of the model and maximises its objective, FEASIBLE     *)
(* with any assignment that satisfies every constraint, INFEASIBLE when no *)
(* assignment does, or UNKNOWN (time limit); Value(v) reads the stored     *)
(* assignment and raises when there is none.                               *)
(*                                                                         *)
(* An assignment is the set of boolean variables that are 1.  Identifier   *)
(* lists (teacherIds, classIds, days) hold no duplicates, so a list of     *)
(* variables summed by a constraint is modelled by the set of its          *)
(* variables.                                                              *)
(*                                                                         *)
(* Spec is one call of solve, step by step.  SpecJobs is the job system:   *)
(* the handlers are coroutines without awaits, so they run one at a time   *)
(* on the event loop, while the worker threads interleave with them and    *)
(* with each other statement by statement; a worker's solve is one of the  *)
(* runs of the same driver (SolveRuns).                                    *)
(***************************************************************************)
EXTENDS Integers, Sequences, FiniteSets, TLC

\* ------------------------------------------------------------ bounds
MaxPeriods == 3
MaxDays == 2
MaxCells == 4
MaxIntervals == 1
MaxLessons == 2
MaxTasks == 2
MaxJobs == 2

\* ------------------------------------------------------------ program constants
DefaultTimeLimit == 180
Phase1Time == 3600
Phase2Time == 1200
Phase3Time == 600
RandomSeed == 42

\* ------------------------------------------------------------ identifiers
TeacherLists == {<<"T1">>, <<"T2">>, <<"T1", "T2">>}
ClassLists == {<<>>, <<"A">>, <<"B">>, <<"A", "B">>}
SubjectLists == {<<>>, <<"S1">>, <<"S2">>}

OPTIMAL == "OPTIMAL"
FEASIBLE == "FEASIBLE"
INFEASIBLE == "INFEASIBLE"
UNKNOWN == "UNKNOWN"
NoSolution == [held |-> FALSE, ones |-> {}]

VARIABLES
    request,        \* SolverRequest: lessons and config
    pc,             \* position of solve: init, phase1, rebuild2, ..., phase3, done
    task_vars,      \* self.task_vars: the keys of the place variables
    presence_vars,  \* self.presence_vars: the task indices with a presence variable
    task_info,      \* self.task_info
    model,          \* self.model: hard constraints and objective
    stats,          \* self.stats
    solver,         \* self.solver: status of the last Solve and its stored assignment
    phase,          \* the phase whose model is the current one (0 before Phase 1)
    response,       \* the SolverResponse returned by solve
    stages,         \* the phases announced to stage_callback, in order
    parameters,     \* self.solver.parameters: the parameters set on the current solver
    budgets,        \* the max_time_in_seconds configured for each Solve so far
    diagnosed,      \* what _diagnose_unplaced_tasks computed for each unplaced task
                    \* the last time _build_response ran it
    var_model,      \* for each entry of task_vars and presence_vars, the phase whose
                    \* CpModel its BoolVar was created in
    active_jobs,    \* the job registry: the entry of job i at index i
    worker,         \* the background thread of each job
    loop,           \* the event loop: the handler it runs and how far it is
    returned        \* the jobIds start_solve has returned to its callers

vars == <<request, pc, task_vars, presence_vars, task_info, model, stats, solver,
          phase, response, stages, parameters, budgets, var_model, diagnosed,
          active_jobs, worker, loop, returned>>

jobvars == <<active_jobs, worker, loop, returned>>

enginevars == <<request, pc, task_vars, presence_vars, task_info, model, stats, solver,
                phase, response, stages, parameters, budgets, var_model, diagnosed>>

\* ------------------------------------------------------------ helpers
Range(s) == {s[i] : i \in 1..Len(s)}

RECURSIVE SumOver(_, _)
SumOver(S, f) ==
    IF S = {} THEN 0
    ELSE LET x == CHOOSE y \in S : TRUE IN f[x] + SumOver(S \ {x}, f)

RECURSIVE Flatten(_)
Flatten(ss) == IF ss = <<>> THEN <<>> ELSE Head(ss) \o Flatten(Tail(ss))

Min(S) == CHOOSE x \in S : \A y \in S : x <= y

\* ------------------------------------------------------------ the request
Days(req) == 1..req.config.numDays
Periods(req) == 1..req.config.numberOfPeriods

Lessons ==
    [subjectIds : SubjectLists, teacherIds : TeacherLists, classIds : ClassLists,
     numberOfSingles : 0..MaxTasks, numberOfDoubles : 0..MaxTasks]

TasksOfLesson(l) == l.numberOfSingles + l.numberOfDoubles

TotalTasks(ls) == SumOver(1..Len(ls), [i \in 1..Len(ls) |-> TasksOfLesson(ls[i])])

LessonLists ==
    {ls \in UNION {[1..n -> Lessons] : n \in 1..MaxLessons} :
        /\ \A i \in 1..Len(ls) : TasksOfLesson(ls[i]) >= 1
        /\ TotalTasks(ls) <= MaxTasks}

Configs ==
    {c \in [numberOfPeriods : 1..MaxPeriods, numDays : 1..MaxDays,
            intervalSlots : SUBSET (1..MaxPeriods)] :
        /\ c.numberOfPeriods * c.numDays <= MaxCells
        /\ Cardinality(c.intervalSlots) <= MaxIntervals
        /\ \A a \in c.intervalSlots : a < c.numberOfPeriods}

\* Identifiers are opaque: requests are enumerated up to renaming, the second
\* identifier of a kind appearing no earlier than the first.
FirstUse(ls, field, id) ==
    Min({i \in 1..Len(ls) : id \in Range(ls[i][field])} \cup {Len(ls) + 1})

Canonical(ls) ==
    /\ FirstUse(ls, "teacherIds", "T1") <= FirstUse(ls, "teacherIds", "T2")
    /\ FirstUse(ls, "classIds", "A") <= FirstUse(ls, "classIds", "B")
    /\ FirstUse(ls, "subjectIds", "S1") <= FirstUse(ls, "subjectIds", "S2")

\* The requests of the main specification leave allowRelaxation and
\* maxTimeLimit at their defaults; ParamRequests varies them.
Requests ==
    [lessons : {ls \in LessonLists : Canonical(ls)}, config : Configs,
     allowRelaxation : {TRUE}, maxTimeLimit : {DefaultTimeLimit}]

TimeLimits == {DefaultTimeLimit, Phase1Time + Phase2Time + Phase3Time}

ParamRequests ==
    [lessons : {ls \in LessonLists :
                    /\ Len(ls) = 1
                    /\ ls[1].teacherIds = <<"T1">>
                    /\ ls[1].classIds = <<"A">>
                    /\ Canonical(ls)},
     config : Configs, allowRelaxation : BOOLEAN, maxTimeLimit : TimeLimits]

\* ------------------------------------------------------------ TimetableSolver
\* Faulty variant: the interval breaks are not excluded.
valid_double_starts_M(req) == 1..(req.config.numberOfPeriods - 1)

valid_double_starts(req) ==
    {p \in 1..(req.config.numberOfPeriods - 1) : p \notin req.config.intervalSlots}

\* The iterations of the task loops of _create_variables, in order: lesson by
\* lesson, the singles before the doubles; task_idx counts every iteration.
RECURSIVE TaskLoop(_, _, _)
TaskLoop(lessons, i, base) ==
    IF i > Len(lessons) THEN <<>>
    ELSE LET l == lessons[i]
             singles == [k \in 1..l.numberOfSingles |->
                            [task_idx |-> base + k - 1, lesson_idx |-> i - 1,
                             classIds |-> l.classIds, type |-> "single"]]
             doubles == [k \in 1..l.numberOfDoubles |->
                            [task_idx |-> base + l.numberOfSingles + k - 1,
                             lesson_idx |-> i - 1,
                             classIds |-> l.classIds, type |-> "double"]]
         IN  singles \o doubles \o TaskLoop(lessons, i + 1, base + TasksOfLesson(l))

\* The periods a task's place variables are created for.
StartPeriods(req, type) ==
    IF type = "single" THEN Periods(req) ELSE valid_double_starts(req)

Key(t, day, period) == <<t.lesson_idx, t.type, t.task_idx, day, period>>

\* task_vars after _create_variables.
CreateTaskVars(req) ==
    {Key(t, d, p) : <<t, d, p>> \in
        {x \in Range(TaskLoop(req.lessons, 1, 0)) \X Days(req) \X Periods(req) :
            x[3] \in StartPeriods(req, x[1].type)}}

\* task_info after _create_variables: a task is recorded when the variable of
\* its first day and first start period is created.
CreateTaskInfo(req) ==
    SelectSeq(TaskLoop(req.lessons, 1, 0),
              LAMBDA t : Days(req) # {} /\ StartPeriods(req, t.type) # {})

TasksOfType(info, type) == Cardinality({i \in 1..Len(info) : info[i].type = type})

\* The place variables of a task (the keys the code looks up "if key in task_vars").
TaskSlotVars(req, tvars, t) ==
    {Key(t, d, p) : <<d, p>> \in Days(req) \X StartPeriods(req, t.type)} \cap tvars

PresenceVar(task_idx) == <<"presence", task_idx>>

\* A linear constraint of the CP model: sum(lhs) op sum(rhs_vars) + rhs_const.
\* model.Add(sum(vars) == presence_var) and model.Add(sum(vars) <= 1):
LinkCt(lhs, pv) == [op |-> "eq", lhs |-> lhs, rhs_vars |-> {pv}, rhs_const |-> 0]
AtMostOneCt(lhs) == [op |-> "le", lhs |-> lhs, rhs_vars |-> {}, rhs_const |-> 1]

\* Faulty variant: every task must be placed, sum(task_slot_vars) == 1.
TaskAssignmentConstraints_M(req, tvars, info) ==
    {[op |-> "eq", lhs |-> TaskSlotVars(req, tvars, info[i]), rhs_vars |-> {},
      rhs_const |-> 1] : i \in 1..Len(info)}

\* _add_task_assignment_constraints: sum(task_slot_vars) == presence_var per task.
TaskAssignmentConstraints(req, tvars, info) ==
    {LinkCt(TaskSlotVars(req, tvars, info[i]), PresenceVar(info[i].task_idx)) :
        i \in 1..Len(info)}

\* Faulty variant: a double counts only in the cell it starts in.
TeacherCellVars_M(req, tvars, t, day, period) ==
    {Key(t, day, period)} \cap tvars

\* The variables of a task whose occupancy window includes (day, period), as
\* collected by _add_teacher_no_overlap_constraints.
TeacherCellVars(req, tvars, t, day, period) ==
    IF t.type = "single"
    THEN {Key(t, day, period)} \cap tvars
    ELSE ({Key(t, day, p) : p \in {period - 1, period} \cap valid_double_starts(req)})
            \cap tvars

\* teacher_lessons: the lessons (indices) listing each teacher.
TeacherLessons(req, teacher) ==
    {i - 1 : i \in {j \in 1..Len(req.lessons) : teacher \in Range(req.lessons[j].teacherIds)}}

AllTeacherIds(req) == UNION {Range(req.lessons[i].teacherIds) : i \in 1..Len(req.lessons)}

\* The variable sets of the teacher cells, one per (teacher, day, period) of a
\* teacher with at least two lessons.
TeacherCellSets(req, tvars, info) ==
    {<<tch, d, p, UNION {TeacherCellVars(req, tvars, info[i], d, p) :
                          i \in {j \in 1..Len(info) :
                                   info[j].lesson_idx \in TeacherLessons(req, tch)}}>> :
        <<tch, d, p>> \in
            {x \in AllTeacherIds(req) \X Days(req) \X Periods(req) :
                Cardinality(TeacherLessons(req, x[1])) >= 2}}

\* _add_teacher_no_overlap_constraints (one entry per emitted constraint).
TeacherEmitted(req, tvars, info) ==
    {x \in TeacherCellSets(req, tvars, info) : Cardinality(x[4]) > 1}

\* Faulty variant: the second period of a double is not counted.
ClassCellVars_M(req, tvars, t, day, period) ==
    {Key(t, day, p) : p \in {period} \cap StartPeriods(req, t.type)} \cap tvars

\* The variables of a task whose occupancy window includes (day, period), as
\* collected by _add_class_no_overlap_constraints.
ClassCellVars(req, tvars, t, day, period) ==
    IF t.type = "single"
    THEN {Key(t, day, period)} \cap tvars
    ELSE ({Key(t, day, p) : p \in {period - 1, period} \cap valid_double_starts(req)})
            \cap tvars

AllClassIds(req) == UNION {Range(req.lessons[i].classIds) : i \in 1..Len(req.lessons)}

RelevantTasks(info, class_id) ==
    {i \in 1..Len(info) : class_id \in Range(info[i].classIds)}

ClassCellSets(req, tvars, info) ==
    {<<c, d, p, UNION {ClassCellVars(req, tvars, info[i], d, p) :
                        i \in RelevantTasks(info, c)}>> :
        <<c, d, p>> \in
            {x \in AllClassIds(req) \X Days(req) \X Periods(req) :
                Cardinality(RelevantTasks(info, x[1])) >= 2}}

\* _add_class_no_overlap_constraints (one entry per emitted constraint).
ClassEmitted(req, tvars, info) ==
    {x \in ClassCellSets(req, tvars, info) : Cardinality(x[4]) > 1}

\* _add_constraints: the hard constraints and the number added to
\* stats['constraintsAdded'] (_add_double_period_constraints adds nothing).
AddConstraints(req, tvars, info) ==
    [constraints |->
        TaskAssignmentConstraints(req, tvars, info)
        \cup {AtMostOneCt(x[4]) : x \in TeacherEmitted(req, tvars, info)}
        \cup {AtMostOneCt(x[4]) : x \in ClassEmitted(req, tvars, info)},
     added |-> Len(info) + Cardinality(TeacherEmitted(req, tvars, info))
                         + Cardinality(ClassEmitted(req, tvars, info))]

\* ------------------------------------------------------------ _set_objective
LessonOf(req, t) == req.lessons[t.lesson_idx + 1]

\* subject_id of a task: the first subject of its lesson, None when it has none.
NoSubject == "None"
PrimarySubject(req, t) ==
    IF LessonOf(req, t).subjectIds # <<>> THEN Head(LessonOf(req, t).subjectIds)
    ELSE NoSubject

\* class_subject_tasks[(class_id, subject_id)].
ClassSubjectTasks(req, info, class_id, subject_id) ==
    {i \in 1..Len(info) :
        /\ PrimarySubject(req, info[i]) = subject_id
        /\ class_id \in Range(info[i].classIds)}

ClassSubjectKeys(req, info) ==
    {<<c, PrimarySubject(req, info[i])>> : <<c, i>> \in
        {x \in AllClassIds(req) \X (1..Len(info)) :
            /\ PrimarySubject(req, info[x[2]]) # NoSubject
            /\ x[1] \in Range(info[x[2]].classIds)}}

\* day_vars: every place variable of the tasks of a (class, subject) on a day.
DayVars(req, tvars, info, tasks, day) ==
    UNION {{Key(info[i], day, p) : p \in StartPeriods(req, info[i].type)} \cap tvars :
              i \in tasks}

\* Faulty variant: the distribution limit is skipped (it is a penalty only).
DistributionConstraints_M(req, tvars, info, penalty_multiplier) == {}

\* The hard distribution constraints _set_objective adds to the model.  They are
\* added whatever penalty_multiplier is: base_penalty is computed and never used.
DistributionConstraints(req, tvars, info, penalty_multiplier) ==
    {AtMostOneCt(dv) : dv \in
        {x \in {DayVars(req, tvars, info, ClassSubjectTasks(req, info, k[1], k[2]), d) :
                    <<k, d>> \in
                        {y \in ClassSubjectKeys(req, info) \X Days(req) :
                            Cardinality(ClassSubjectTasks(req, info, y[1][1], y[1][2])) > 1}} :
            Cardinality(x) > 1}}

\* Tier-1 weight of a task in the objective.
Weight(t) == (IF t.type = "double" THEN 2000000 ELSE 1000000) * Len(t.classIds)

\* _set_objective: the constraints it adds to the model and the maximised sum.
SetObjective(req, tvars, info, penalty_multiplier) ==
    [constraints |-> DistributionConstraints(req, tvars, info, penalty_multiplier),
     objective |-> {<<Weight(info[i]), PresenceVar(info[i].task_idx)>> :
                        i \in 1..Len(info)}]

\* ------------------------------------------------------------ the CP-SAT solver
CtVars(ct) == ct.lhs \cup ct.rhs_vars

\* An assignment (the set of variables that are 1) satisfies a constraint.
Satisfies(val, ct) ==
    IF ct.op = "eq"
    THEN Cardinality(ct.lhs \cap val) = Cardinality(ct.rhs_vars \cap val) + ct.rhs_const
    ELSE Cardinality(ct.lhs \cap val) <= Cardinality(ct.rhs_vars \cap val) + ct.rhs_const

\* The variables of the model, grouped by task index.
VarGroup(tvars, pvars, idx) ==
    {k \in tvars : k[3] = idx} \cup {PresenceVar(i) : i \in pvars \cap {idx}}

TaskIndices(tvars, pvars) == {k[3] : k \in tvars} \cup pvars

\* The assignments of one group that satisfy the constraints over that group alone.
LocalAssignments(m, g) ==
    {v \in SUBSET g : \A ct \in {c \in m.constraints : CtVars(c) \subseteq g} :
                          Satisfies(v, ct)}

RECURSIVE Combine(_, _, _, _)
Combine(m, tvars, pvars, idxs) ==
    IF idxs = {} THEN {{}}
    ELSE LET i == CHOOSE j \in idxs : TRUE
             rest == Combine(m, tvars, pvars, idxs \ {i})
         IN  {v \cup w : <<v, w>> \in
                 LocalAssignments(m, VarGroup(tvars, pvars, i)) \X rest}

\* Every assignment of the model's variables that satisfies all its constraints.
Solutions(m, tvars, pvars) ==
    {v \in Combine(m, tvars, pvars, TaskIndices(tvars, pvars)) :
        \A ct \in m.constraints : Satisfies(v, ct)}

ObjectiveValue(m, val) ==
    LET terms == {x \in m.objective : x[2] \in val}
    IN  SumOver(terms, [x \in terms |-> x[1]])

OptimalSolutions(m, sols) ==
    {v \in sols : \A w \in sols : ObjectiveValue(m, w) <= ObjectiveValue(m, v)}

\* What solver.Solve(model) can leave in the solver: a status and the stored
\* assignment.  After UNKNOWN the solver holds either nothing or its last
\* snapshot, an assignment that satisfies the model.
SolveOutcomes(m, tvars, pvars) ==
    LET sols == Solutions(m, tvars, pvars)
        held == {[held |-> TRUE, ones |-> v] : v \in sols}
        best == {[held |-> TRUE, ones |-> v] : v \in OptimalSolutions(m, sols)}
    IN  [status : {OPTIMAL}, solution : best]
        \cup [status : {FEASIBLE}, solution : held]
        \cup [status : {UNKNOWN}, solution : held \cup {NoSolution}]
        \cup (IF sols = {} THEN {[status |-> INFEASIBLE, solution |-> NoSolution]}
              ELSE {})

\* ------------------------------------------------------------ _extract_solution
\* task_placed: the value of the task's presence variable (True without one).
TaskPlaced(pvars, val, t) ==
    t.task_idx \in pvars => PresenceVar(t.task_idx) \in val

\* The (day, period) cells whose place variable of the task is 1.
ChosenCells(req, tvars, val, t) ==
    {x \in Days(req) \X StartPeriods(req, t.type) :
        Key(t, x[1], x[2]) \in tvars \cap val}

\* assigned_day, assigned_period: the first such cell in loop order.
AssignedCell(req, tvars, val, t) ==
    LET cells == ChosenCells(req, tvars, val, t)
        d == Min({x[1] : x \in cells})
    IN  <<d, Min({x[2] : x \in {y \in cells : y[1] = d}})>>

Slot(class_id, lesson_id, day, period, ds, de) ==
    [classId |-> class_id, lessonId |-> lesson_id, day |-> day,
     periodNumber |-> period, isDoubleStart |-> ds, isDoubleEnd |-> de]

\* The slot records of one class for a task assigned to cell.
ClassSlots(t, class_id, cell) ==
    IF t.type = "single"
    THEN <<Slot(class_id, t.lesson_idx, cell[1], cell[2], FALSE, FALSE)>>
    ELSE <<Slot(class_id, t.lesson_idx, cell[1], cell[2], TRUE, FALSE),
           Slot(class_id, t.lesson_idx, cell[1], cell[2] + 1, FALSE, TRUE)>>

\* Faulty variant: slot records for the first class only.
TaskSlots_M(req, tvars, pvars, val, t) ==
    IF ~TaskPlaced(pvars, val, t) \/ ChosenCells(req, tvars, val, t) = {}
       \/ t.classIds = <<>> THEN <<>>
    ELSE ClassSlots(t, t.classIds[1], AssignedCell(req, tvars, val, t))

\* The slot records of a task: for ALL classes of its classIds.
TaskSlots(req, tvars, pvars, val, t) ==
    IF ~TaskPlaced(pvars, val, t) \/ ChosenCells(req, tvars, val, t) = {} THEN <<>>
    ELSE Flatten([c \in 1..Len(t.classIds) |->
                    ClassSlots(t, t.classIds[c], AssignedCell(req, tvars, val, t))])

\* The unplaced records of a task: one per class when the task is not placed.
TaskUnplaced(pvars, val, t) ==
    IF TaskPlaced(pvars, val, t) THEN <<>>
    ELSE [c \in 1..Len(t.classIds) |->
            [lessonId |-> t.lesson_idx, classId |-> t.classIds[c], taskType |-> t.type]]

ExtractSolution(req, tvars, pvars, info, val) ==
    [slots |-> Flatten([i \in 1..Len(info) |-> TaskSlots(req, tvars, pvars, val, info[i])]),
     unplaced |-> Flatten([i \in 1..Len(info) |-> TaskUnplaced(pvars, val, info[i])])]

\* ------------------------------------------------------------ _build_response
SolverResponse(success, status, slots, unplaced, st) ==
    [success |-> success, status |-> status, slots |-> slots,
     unplacedTasks |-> unplaced, conflicts |-> 0, stats |-> st]

\* _build_response with slots and unplaced_tasks given, or extracted when the
\* status is OPTIMAL or FEASIBLE and empty otherwise.
BuildResponse(status, ex, st) ==
    SolverResponse(status \in {OPTIMAL, FEASIBLE},
                   IF status \in {OPTIMAL, FEASIBLE} THEN "success" ELSE "failed",
                   ex.slots, ex.unplaced, st)

NoSlots == [slots |-> <<>>, unplaced |-> <<>>]

\* ------------------------------------------------------------ _diagnose_unplaced_tasks
\* teacher_schedule[teacher_id]: one period is appended per slot record whose
\* lesson lists the teacher; the entries are the indices of those records.
TeacherSchedule(req, slots, teacher_id) ==
    {i \in 1..Len(slots) : teacher_id \in Range(req.lessons[slots[i].lessonId + 1].teacherIds)}

\* class_schedule[class_id]: one period is appended per slot record of the class.
ClassSchedule(slots, class_id) ==
    {i \in 1..Len(slots) : slots[i].classId = class_id}

\* The counts behind teacher_utilization (first teacher of the task's lesson)
\* and class_utilization of each unplaced task, and their denominator.
DiagnoseUnplacedTasks(req, unplaced, slots) ==
    [i \in 1..Len(unplaced) |->
        [lessonId |-> unplaced[i].lessonId,
         classId |-> unplaced[i].classId,
         teacher_busy_count |->
            Cardinality(TeacherSchedule(req, slots,
                            req.lessons[unplaced[i].lessonId + 1].teacherIds[1])),
         class_busy_count |-> Cardinality(ClassSchedule(slots, unplaced[i].classId)),
         total_slots |-> req.config.numDays * req.config.numberOfPeriods]]

\* The end of solve, reached when the last Solve ended neither OPTIMAL nor
\* FEASIBLE: on UNKNOWN the stored assignment is read (reading raises when the
\* solver holds none, and the bare except swallows it).
UnknownTail(req, tvars, pvars, info, out, st) ==
    IF out.status = UNKNOWN
    THEN IF out.solution = NoSolution THEN BuildResponse(INFEASIBLE, NoSlots, st)
         ELSE LET ex == ExtractSolution(req, tvars, pvars, info, out.solution.ones)
              IN  IF Len(ex.slots) > 0 THEN BuildResponse(FEASIBLE, ex, st)
                  ELSE BuildResponse(INFEASIBLE, NoSlots, st)
    ELSE BuildResponse(out.status, NoSlots, st)

\* ------------------------------------------------------------ solve
NoResponse == SolverResponse(FALSE, "none", <<>>, <<>>, [totalLessons |-> 0])

FreshSolver == [status |-> "NOT_SOLVED", solution |-> NoSolution]

\* The parameters of a CpSolver() nothing was set on: no time limit, and the
\* random seed left to the library.
DefaultParameters == [max_time_in_seconds |-> <<>>, random_seed |-> <<>>]

\* The parameters solve sets before the Solve of phase k.
PhaseParameters(k) ==
    CASE k = 1 -> [max_time_in_seconds |-> <<Phase1Time>>, random_seed |-> <<RandomSeed>>]
      [] k = 2 -> [max_time_in_seconds |-> <<Phase2Time>>, random_seed |-> <<>>]
      [] k = 3 -> [max_time_in_seconds |-> <<Phase3Time>>, random_seed |-> <<>>]

InitialStats(req) ==
    [totalLessons |-> Len(req.lessons), totalTasks |-> 0, singlesCreated |-> 0,
     doublesCreated |-> 0, constraintsAdded |-> 0]

\* A job no thread was created for, and the event loop between two handlers.
NoThread == [pc |-> "none", request |-> <<>>, todo |-> <<>>, result |-> <<>>, step |-> 0]
IdleLoop == [pc |-> "idle", job |-> 0, next |-> 0, reply |-> <<>>]

\* The state after TimetableSolver(request), for a request of reqs, with an
\* empty job registry.
InitOf(reqs) ==
    /\ request \in reqs
    /\ pc = "init"
    /\ task_vars = {}
    /\ presence_vars = {}
    /\ task_info = <<>>
    /\ model = [constraints |-> {}, objective |-> {}]
    /\ stats = InitialStats(request)
    /\ solver = FreshSolver
    /\ phase = 0
    /\ response = NoResponse
    /\ stages = <<>>
    /\ parameters = DefaultParameters
    /\ budgets = <<>>
    /\ var_model = [key \in {} |-> 0]
    /\ diagnosed = <<>>
    /\ active_jobs = <<>>
    /\ worker = [j \in 1..MaxJobs |-> NoThread]
    /\ loop = IdleLoop
    /\ returned = {}

Init == InitOf(Requests)

\* The clearing at the head of _create_variables: self.task_vars = {} and
\* self.presence_vars = {}, and self.task_info = [].
ClearedTable(old) == {}

\* Faulty variant: the task list is not cleared, a rebuild appends to it.
ClearedList_M(old) == old

ClearedList(old) == <<>>

\* A fresh model and solver, then _create_variables, _add_constraints and
\* _set_objective(penalty_multiplier); the multiplier is in thousandths.  The
\* phase is announced to stage_callback and the solver's parameters are set.
\* Every BoolVar is created in the model of phase k; an entry written under a
\* key a table already holds replaces the old one.
Rebuild(k, penalty_multiplier) ==
    LET tvars == ClearedTable(task_vars) \cup CreateTaskVars(request)
        info == ClearedList(task_info) \o CreateTaskInfo(request)
        pvars == ClearedTable(presence_vars) \cup {info[i].task_idx : i \in 1..Len(info)}
        created == CreateTaskVars(request)
                      \cup {PresenceVar(info[i].task_idx) : i \in 1..Len(info)}
        hard == AddConstraints(request, tvars, info)
        obj == SetObjective(request, tvars, info, penalty_multiplier)
    IN  /\ task_vars' = tvars
        /\ task_info' = info
        /\ presence_vars' = pvars
        /\ var_model' = [key \in tvars \cup {PresenceVar(i) : i \in pvars} |->
                            IF key \in created THEN k ELSE var_model[key]]
        /\ model' = [constraints |-> hard.constraints \cup obj.constraints,
                     objective |-> obj.objective]
        /\ stats' = [stats EXCEPT
                        !.singlesCreated = TasksOfType(info, "single"),
                        !.doublesCreated = TasksOfType(info, "double"),
                        !.totalTasks = Len(info),
                        !.constraintsAdded = @ + hard.added]
        /\ solver' = FreshSolver
        /\ phase' = k
        /\ stages' = Append(stages, k)
        /\ parameters' = PhaseParameters(k)
        /\ budgets' = Append(budgets, Head(PhaseParameters(k).max_time_in_seconds))

Extracted(out) ==
    ExtractSolution(request, task_vars, presence_vars, task_info, out.solution.ones)

EndOfSolve(out) ==
    UnknownTail(request, task_vars, presence_vars, task_info, out, stats)

Outcomes == SolveOutcomes(model, task_vars, presence_vars)

\* _build_response runs _diagnose_unplaced_tasks on the unplaced tasks and the
\* slots it was given.
Diagnosis(resp) == DiagnoseUnplacedTasks(request, resp.unplacedTasks, resp.slots)

\* solve, steps 1-3: the Phase-1 model.
Start ==
    /\ pc = "init"
    /\ Rebuild(1, 1000)
    /\ pc' = "phase1"
    /\ UNCHANGED <<request, response, diagnosed>>
    /\ UNCHANGED jobvars

\* Phase 1: Solve and the check of its result.
Phase1 ==
    /\ pc = "phase1"
    /\ \E out \in Outcomes :
        LET ex == Extracted(out)
        IN  /\ solver' = out
            /\ IF out.status \in {OPTIMAL, FEASIBLE}
               THEN IF Len(ex.unplaced) = 0
                    THEN /\ response' = SolverResponse(TRUE, "success", ex.slots,
                                                       <<>>, stats)
                         /\ diagnosed' = diagnosed
                         /\ pc' = "done"
                    ELSE /\ response' = response
                         /\ diagnosed' = diagnosed
                         /\ pc' = "rebuild2"
               ELSE /\ response' = EndOfSolve(out)
                    /\ diagnosed' = Diagnosis(EndOfSolve(out))
                    /\ pc' = "done"
    /\ UNCHANGED <<request, task_vars, presence_vars, task_info, model, stats, phase,
                   stages, parameters, budgets, var_model>>
    /\ UNCHANGED jobvars

\* The rebuild before Phase 2: _set_objective(penalty_multiplier=10.0).
Rebuild2 ==
    /\ pc = "rebuild2"
    /\ Rebuild(2, 10000)
    /\ pc' = "phase2"
    /\ UNCHANGED <<request, response, diagnosed>>
    /\ UNCHANGED jobvars

\* Faulty variant: Phase 2 never returns, Phase 3 always follows.
Phase2_M ==
    /\ pc = "phase2"
    /\ \E out \in Outcomes : solver' = out
    /\ pc' = "rebuild3"
    /\ UNCHANGED <<request, task_vars, presence_vars, task_info, model, stats, phase,
                   stages, parameters, budgets, var_model, response, diagnosed>>
    /\ UNCHANGED jobvars

\* Phase 2: Solve and the check of its result.
Phase2 ==
    /\ pc = "phase2"
    /\ \E out \in Outcomes :
        LET ex == Extracted(out)
        IN  /\ solver' = out
            /\ IF out.status \in {OPTIMAL, FEASIBLE} /\ Len(ex.unplaced) = 0
               THEN /\ response' = SolverResponse(TRUE, "success", ex.slots,
                                                  <<>>, stats)
                    /\ pc' = "done"
               ELSE /\ response' = response
                    /\ pc' = "rebuild3"
            /\ diagnosed' = diagnosed
    /\ UNCHANGED <<request, task_vars, presence_vars, task_info, model, stats, phase,
                   stages, parameters, budgets, var_model>>
    /\ UNCHANGED jobvars

\* The rebuild before Phase 3: _set_objective(penalty_multiplier=0.001).
Rebuild3 ==
    /\ pc = "rebuild3"
    /\ Rebuild(3, 1)
    /\ pc' = "phase3"
    /\ UNCHANGED <<request, response, diagnosed>>
    /\ UNCHANGED jobvars

\* Phase 3: Solve, and the response whatever it produced.
Phase3 ==
    /\ pc = "phase3"
    /\ \E out \in Outcomes :
        LET ex == Extracted(out)
        IN  /\ solver' = out
            /\ response' =
                IF out.status \in {OPTIMAL, FEASIBLE}
                THEN SolverResponse(Len(ex.unplaced) = 0,
                                    IF Len(ex.unplaced) = 0 THEN "success"
                                    ELSE "partial",
                                    ex.slots, ex.unplaced, stats)
                ELSE EndOfSolve(out)
            /\ diagnosed' =
                IF out.status \in {OPTIMAL, FEASIBLE} THEN diagnosed
                ELSE Diagnosis(EndOfSolve(out))
            /\ pc' = "done"
    /\ UNCHANGED <<request, task_vars, presence_vars, task_info, model, stats, phase,
                   stages, parameters, budgets, var_model>>
    /\ UNCHANGED jobvars

Next == Start \/ Phase1 \/ Rebuild2 \/ Phase2 \/ Rebuild3 \/ Phase3

Spec == Init /\ [][Next]_vars

\* Scenario S1: 1 day, 4 periods, no intervals, one class, one lesson with
\* 2 singles and 1 double, one teacher; its subjectIds are left open.
S1Requests ==
    {[lessons |-> <<[subjectIds |-> sub, teacherIds |-> <<"T1">>, classIds |-> <<"A">>,
                     numberOfSingles |-> 2, numberOfDoubles |-> 1]>>,
      config |-> [numberOfPeriods |-> 4, numDays |-> 1, intervalSlots |-> {}],
      allowRelaxation |-> TRUE, maxTimeLimit |-> DefaultTimeLimit] :
        sub \in SubjectLists}

InitS1 == InitOf(S1Requests)

SpecS1 == InitS1 /\ [][Next]_vars

\* The solve driver over requests that vary allowRelaxation and maxTimeLimit.
InitParams == InitOf(ParamRequests)

SpecParams == InitParams /\ [][Next]_vars

\* ------------------------------------------------------------ solve, as one call
\* What the build of phase k leaves in the engine of a request.
Built(req, k) ==
    LET tvars == CreateTaskVars(req)
        info == CreateTaskInfo(req)
        hard == AddConstraints(req, tvars, info)
        obj == SetObjective(req, tvars, info,
                            CASE k = 1 -> 1000 [] k = 2 -> 10000 [] k = 3 -> 1)
    IN  [tvars |-> tvars, info |-> info,
         pvars |-> {info[i].task_idx : i \in 1..Len(info)},
         model |-> [constraints |-> hard.constraints \cup obj.constraints,
                    objective |-> obj.objective],
         stats |-> [InitialStats(req) EXCEPT
                        !.singlesCreated = TasksOfType(info, "single"),
                        !.doublesCreated = TasksOfType(info, "double"),
                        !.totalTasks = Len(info),
                        !.constraintsAdded = k * hard.added]]

\* The runs of solve(request): the phases announced to stage_callback and the
\* response returned, for every sequence of Solve outcomes.
SolveRuns(req) ==
    LET B == [k \in 1..3 |-> Built(req, k)]
        Outs == [k \in 1..3 |-> SolveOutcomes(B[k].model, B[k].tvars, B[k].pvars)]
        Ex(k, out) == ExtractSolution(req, B[k].tvars, B[k].pvars, B[k].info,
                                      out.solution.ones)
        Solved(out) == out.status \in {OPTIMAL, FEASIBLE}
        Full(k, out) == Solved(out) /\ Len(Ex(k, out).unplaced) = 0
        Success(k, out) ==
            [stages |-> [i \in 1..k |-> i],
             response |-> SolverResponse(TRUE, "success", Ex(k, out).slots, <<>>,
                                         B[k].stats)]
        TailOf(k, out) ==
            [stages |-> [i \in 1..k |-> i],
             response |-> UnknownTail(req, B[k].tvars, B[k].pvars, B[k].info, out,
                                      B[k].stats)]
        Last(out) ==
            IF Solved(out)
            THEN [stages |-> <<1, 2, 3>>,
                  response |-> SolverResponse(Len(Ex(3, out).unplaced) = 0,
                                              IF Len(Ex(3, out).unplaced) = 0
                                              THEN "success" ELSE "partial",
                                              Ex(3, out).slots, Ex(3, out).unplaced,
                                              B[3].stats)]
            ELSE TailOf(3, out)
        From3 == {Last(out) : out \in Outs[3]}
        From2 == {Success(2, out) : out \in {o \in Outs[2] : Full(2, o)}}
                 \cup (IF \E o \in Outs[2] : ~Full(2, o) THEN From3 ELSE {})
    IN  {Success(1, out) : out \in {o \in Outs[1] : Full(1, o)}}
        \cup {TailOf(1, out) : out \in {o \in Outs[1] : ~Solved(o)}}
        \cup (IF \E o \in Outs[1] : Solved(o) /\ ~Full(1, o) THEN From2 ELSE {})

\* ------------------------------------------------------------ the job system
Jobs == 1..MaxJobs

\* The requests of the jobs: one class, one teacher, one day, a lesson with a
\* single in a one-period day or with a double in a two-period day.
JobRequest(singles, doubles, periods) ==
    [lessons |-> <<[subjectIds |-> <<>>, teacherIds |-> <<"T1">>, classIds |-> <<"A">>,
                    numberOfSingles |-> singles, numberOfDoubles |-> doubles]>>,
     config |-> [numberOfPeriods |-> periods, numDays |-> 1, intervalSlots |-> {}],
     allowRelaxation |-> TRUE, maxTimeLimit |-> DefaultTimeLimit]

JobRequests == {JobRequest(1, 0, 1), JobRequest(0, 1, 2)}

\* The runs of solve for each of them.
JobRuns == [req \in JobRequests |-> SolveRuns(req)]

\* The entry start_solve inserts.  None is the empty sequence, a value v is <<v>>.
NewEntry ==
    [status |-> "starting", progress |-> "Job queued...", createdAt |-> <<"now">>,
     completedAt |-> <<>>, result |-> <<>>, error |-> <<>>]

\* Faulty variant: the write goes to the entry of every job.
SetField_M(jobs, job_id, field, value) ==
    [i \in DOMAIN jobs |-> [jobs[i] EXCEPT ![field] = value]]

\* active_jobs[job_id][field] = value
SetField(jobs, job_id, field, value) ==
    [jobs EXCEPT ![job_id] = [@ EXCEPT ![field] = value]]

\* The writes of run_solver_background, statement by statement: at its start,
\* after solve returned, and in the except block.
BeginWrites ==
    << <<"status", "processing">>, <<"progress", "Initializing AI solver...">> >>

CompletedWrites(result) ==
    << <<"status", "completed">>, <<"result", result>>,
       <<"progress", "Completed successfully!">>, <<"completedAt", <<"now">> >> >>

FailedWrites ==
    << <<"status", "failed">>, <<"error", <<"str(e)">> >>,
       <<"progress", "Error: str(e)">>, <<"completedAt", <<"now">> >> >>

PhaseMessage(k) ==
    CASE k = 1 -> "PHASE 1: STRICT PERFECTION"
      [] k = 2 -> "PHASE 2: HEAVY PENALTY FALLBACK"
      [] k = 3 -> "PHASE 3: FINAL FORCE"

\* The fields get_job_status reads from the entry, in order.
ReadFields == <<"status", "progress", "createdAt", "completedAt", "result", "error">>

\* start_solve: the entry is inserted under a fresh job id and the thread
\* object is created with the request.
StartSolve ==
    /\ loop.pc = "idle"
    /\ Len(active_jobs) < MaxJobs
    /\ \E req \in JobRequests :
        LET job_id == Len(active_jobs) + 1
        IN  /\ active_jobs' = Append(active_jobs, NewEntry)
            /\ worker' = [worker EXCEPT ![job_id] = [NoThread EXCEPT !.request = <<req>>]]
            /\ loop' = [IdleLoop EXCEPT !.pc = "thread", !.job = job_id]
    /\ UNCHANGED <<returned, enginevars>>

\* start_solve: thread.start().
StartThread ==
    /\ loop.pc = "thread"
    /\ worker' = [worker EXCEPT ![loop.job].pc = "begin", ![loop.job].step = 1]
    /\ loop' = [loop EXCEPT !.pc = "return"]
    /\ UNCHANGED <<active_jobs, returned, enginevars>>

\* start_solve returns the jobId.
ReturnJobId ==
    /\ loop.pc = "return"
    /\ returned' = returned \cup {loop.job}
    /\ loop' = IdleLoop
    /\ UNCHANGED <<active_jobs, worker, enginevars>>

\* get_job_status: the lookup, 404 for an id the registry does not hold.
GetJobStatus(job_id) ==
    /\ loop.pc = "idle"
    /\ loop' = IF job_id \in DOMAIN active_jobs
               THEN [IdleLoop EXCEPT !.pc = "reading", !.job = job_id, !.next = 1]
               ELSE [IdleLoop EXCEPT !.pc = "not_found", !.job = job_id]
    /\ UNCHANGED <<active_jobs, worker, returned, enginevars>>

\* get_job_status: the next field of the entry is read into the reply.
ReadField ==
    /\ loop.pc = "reading"
    /\ LET field == ReadFields[loop.next]
       IN  loop' = [loop EXCEPT
                        !.reply = (field :> active_jobs[loop.job][field]) @@ @,
                        !.next = @ + 1,
                        !.pc = IF loop.next = Len(ReadFields) THEN "reply" ELSE "reading"]
    /\ UNCHANGED <<active_jobs, worker, returned, enginevars>>

\* get_job_status returns its reply, or raises the 404.
ReturnReply ==
    /\ loop.pc \in {"reply", "not_found"}
    /\ loop' = IdleLoop
    /\ UNCHANGED <<active_jobs, worker, returned, enginevars>>

\* A block of writes of the worker of job_id: the write its step is at, then
\* the next step or, after the last write, the position after the block.
WriteBlock(job_id, writes, after) ==
    LET w == writes[worker[job_id].step]
    IN  /\ active_jobs' = SetField(active_jobs, job_id, w[1], w[2])
        /\ worker' = [worker EXCEPT
                        ![job_id].step = IF @ = Len(writes) THEN 0 ELSE @ + 1,
                        ![job_id].pc = IF worker[job_id].step = Len(writes)
                                       THEN after ELSE @]
        /\ UNCHANGED <<loop, returned, enginevars>>

\* run_solver_background: status = 'processing', then the first progress text.
WorkerBegin(job_id) ==
    /\ worker[job_id].pc = "begin"
    /\ WriteBlock(job_id, BeginWrites, "engine")

\* TimetableSolver(request) and the call of solve: the run it will make.
RunEngine(job_id) ==
    /\ worker[job_id].pc = "engine"
    /\ \E run \in JobRuns[Head(worker[job_id].request)] :
        worker' = [worker EXCEPT ![job_id].pc = "solving",
                                 ![job_id].todo = run.stages,
                                 ![job_id].result = <<run.response>>]
    /\ UNCHANGED <<active_jobs, loop, returned, enginevars>>

\* update_progress, called by solve at the start of a phase.
UpdateProgress(job_id) ==
    /\ worker[job_id].pc = "solving"
    /\ worker[job_id].todo # <<>>
    /\ active_jobs' = SetField(active_jobs, job_id, "progress",
                               PhaseMessage(Head(worker[job_id].todo)))
    /\ worker' = [worker EXCEPT ![job_id].todo = Tail(@)]
    /\ UNCHANGED <<loop, returned, enginevars>>

\* solve returns its response.
SolveReturns(job_id) ==
    /\ worker[job_id].pc = "solving"
    /\ worker[job_id].todo = <<>>
    /\ worker' = [worker EXCEPT ![job_id].pc = "completed", ![job_id].step = 1]
    /\ UNCHANGED <<active_jobs, loop, returned, enginevars>>

\* An exception raised in the engine, at its construction or during solve.
EngineRaises(job_id) ==
    /\ worker[job_id].pc \in {"engine", "solving"}
    /\ worker' = [worker EXCEPT ![job_id].pc = "failed", ![job_id].step = 1,
                                 ![job_id].todo = <<>>, ![job_id].result = <<>>]
    /\ UNCHANGED <<active_jobs, loop, returned, enginevars>>

\* The four writes after solve returned.
WorkerCompleted(job_id) ==
    /\ worker[job_id].pc = "completed"
    /\ WriteBlock(job_id, CompletedWrites(worker[job_id].result), "finished")

\* Faulty variant: the except block writes nothing.
WorkerFailed_M(job_id) ==
    /\ worker[job_id].pc = "failed"
    /\ worker' = [worker EXCEPT ![job_id].pc = "finished", ![job_id].step = 0]
    /\ UNCHANGED <<active_jobs, loop, returned, enginevars>>

\* The four writes of the except block.
WorkerFailed(job_id) ==
    /\ worker[job_id].pc = "failed"
    /\ WriteBlock(job_id, FailedWrites, "finished")

Worker(job_id) ==
    \/ WorkerBegin(job_id)
    \/ RunEngine(job_id)
    \/ UpdateProgress(job_id)
    \/ SolveReturns(job_id)
    \/ EngineRaises(job_id)
    \/ WorkerCompleted(job_id)
    \/ WorkerFailed(job_id)

NextJobs ==
    \/ StartSolve
    \/ StartThread
    \/ ReturnJobId
    \/ \E job_id \in Jobs : GetJobStatus(job_id)
    \/ ReadField
    \/ ReturnReply
    \/ \E job_id \in Jobs : Worker(job_id)

\* The registry is empty and no /solve call is being served.
InitJobs == InitOf({JobRequest(1, 0, 1)})

\* The job system: the event loop runs its handlers to their end and every
\* started thread keeps being scheduled.
SpecJobs ==
    /\ InitJobs
    /\ [][NextJobs]_vars
    /\ WF_vars(StartThread \/ ReturnJobId \/ ReadField \/ ReturnReply)
    /\ \A job_id \in Jobs : WF_vars(Worker(job_id))

\* The job system while no status request is served: start_solve and the
\* workers, under the same scheduling.
NextWorkers ==
    \/ StartSolve
    \/ StartThread
    \/ ReturnJobId
    \/ \E job_id \in Jobs : Worker(job_id)

SpecWorkers ==
    /\ InitJobs
    /\ [][NextWorkers]_vars
    /\ WF_vars(StartThread \/ ReturnJobId)
    /\ \A job_id \in Jobs : WF_vars(Worker(job_id))

\* ------------------------------------------------------------ properties
Done == pc = "done"
Slots == response.slots
Unplaced == response.unplacedTasks
HasSolution == response.status \in {"success", "partial"}

\* The placed tasks of the assignment the solver holds, and the cells they occupy.
Held == solver.solution.held
Ones == solver.solution.ones
StartCells(t) == {x \in Days(request) \X Periods(request) : Key(t, x[1], x[2]) \in Ones}
Occupies(t, day, period) ==
    \/ <<day, period>> \in StartCells(t)
    \/ t.type = "double" /\ <<day, period - 1>> \in StartCells(t)
Tasks == Range(task_info)

C2_NoTeacherOverlap ==
    Held => \A tch \in AllTeacherIds(request), d \in Days(request), p \in Periods(request) :
                \A t, u \in Tasks :
                    (/\ tch \in Range(LessonOf(request, t).teacherIds)
                     /\ tch \in Range(LessonOf(request, u).teacherIds)
                     /\ Occupies(t, d, p) /\ Occupies(u, d, p)) => t = u

\* C3: every isDoubleStart slot at (day, p) has its isDoubleEnd slot at
\* (day, p+1) for the same class and lesson, p is a valid double start
\* (1 <= p < numberOfPeriods, p no interval's afterPeriod), so p+1 <= numberOfPeriods.
C3_DoublesWellFormed ==
    Done => \A i \in 1..Len(Slots) :
                Slots[i].isDoubleStart =>
                    /\ \E j \in 1..Len(Slots) :
                        /\ Slots[j].isDoubleEnd
                        /\ Slots[j].classId = Slots[i].classId
                        /\ Slots[j].lessonId = Slots[i].lessonId
                        /\ Slots[j].day = Slots[i].day
                        /\ Slots[j].periodNumber = Slots[i].periodNumber + 1
                    /\ 1 <= Slots[i].periodNumber
                    /\ Slots[i].periodNumber < request.config.numberOfPeriods
                    /\ Slots[i].periodNumber \notin request.config.intervalSlots
                    /\ Slots[i].periodNumber + 1 <= request.config.numberOfPeriods

\* C3 witness: a double placed in a day that has an interval.
C3_Witness ==
    /\ Done
    /\ request.config.intervalSlots # {}
    /\ \E i \in 1..Len(Slots) : Slots[i].isDoubleStart

\* The slot records of a class for a lesson, as cells with their flags.
CellsOf(class_id, lesson_id) ==
    {<<Slots[i].day, Slots[i].periodNumber, Slots[i].isDoubleStart, Slots[i].isDoubleEnd>> :
        i \in {j \in 1..Len(Slots) :
                Slots[j].classId = class_id /\ Slots[j].lessonId = lesson_id}}

\* The cells (with flags) the held assignment gives a placed task.
TaskCells(t) ==
    IF t.type = "single" THEN {<<x[1], x[2], FALSE, FALSE>> : x \in StartCells(t)}
    ELSE {<<x[1], x[2], TRUE, FALSE>> : x \in StartCells(t)}
         \cup {<<x[1], x[2] + 1, FALSE, TRUE>> : x \in StartCells(t)}

\* C4: parallel classes are synchronised: every class of a lesson receives
\* exactly the cells of the lesson's placed tasks, no other cell, and no class
\* is omitted.
C4_ParallelSync ==
    (Done /\ HasSolution) =>
        \A i \in 1..Len(request.lessons) :
            \A c \in Range(request.lessons[i].classIds) :
                CellsOf(c, i - 1) = UNION {TaskCells(t) : t \in {u \in Tasks : u.lesson_idx = i - 1}}

\* C4 witness: a lesson of two classes placed, both classes at the same cell.
C4_Witness ==
    /\ Done
    /\ \E i, j \in 1..Len(Slots) :
        /\ Slots[i].classId # Slots[j].classId
        /\ Slots[i].lessonId = Slots[j].lessonId
        /\ Slots[i].day = Slots[j].day
        /\ Slots[i].periodNumber = Slots[j].periodNumber

\* The slot records and the unplaced contributions of a lesson in the response.
SlotCount(lesson_id) ==
    Cardinality({i \in 1..Len(Slots) : Slots[i].lessonId = lesson_id})
UnplacedContribution(lesson_id) ==
    Cardinality({i \in 1..Len(Unplaced) :
        Unplaced[i].lessonId = lesson_id /\ Unplaced[i].taskType = "single"})
    + 2 * Cardinality({i \in 1..Len(Unplaced) :
        Unplaced[i].lessonId = lesson_id /\ Unplaced[i].taskType = "double"})

\* C5: slot conservation: in every response that carries a solution (here for
\* the configs with numberOfPeriods >= 2 alone, those with no valid double
\* start included), for each lesson the slot records plus the unplaced contributions (1 per single,
\* 2 per double record) equal |classIds| x (numberOfSingles + 2 x numberOfDoubles).
C5_SlotConservation ==
    (Done /\ HasSolution /\ request.config.numberOfPeriods >= 2) =>
        \A i \in 1..Len(request.lessons) :
            SlotCount(i - 1) + UnplacedContribution(i - 1)
                = Len(request.lessons[i].classIds)
                    * (request.lessons[i].numberOfSingles
                       + 2 * request.lessons[i].numberOfDoubles)

\* The placed tasks of a (class, primary subject, day) in the response: one per
\* single record, one per pair of double records.
PlacedOn(class_id, subject_id, day) ==
    {i \in 1..Len(Slots) :
        /\ Slots[i].classId = class_id
        /\ Slots[i].day = day
        /\ ~Slots[i].isDoubleEnd
        /\ request.lessons[Slots[i].lessonId + 1].subjectIds # <<>>
        /\ Head(request.lessons[Slots[i].lessonId + 1].subjectIds) = subject_id}

AllSubjectIds ==
    {Head(request.lessons[i].subjectIds) :
        i \in {j \in 1..Len(request.lessons) : request.lessons[j].subjectIds # <<>>}}

\* C6: a response produced by Phase 1 holds, for every class, primary subject
\* and day, at most one placed task.
C6_Phase1Distribution ==
    (Done /\ phase = 1) =>
        \A c \in AllClassIds(request), sid \in AllSubjectIds, d \in Days(request) :
            Cardinality(PlacedOn(c, sid, d)) <= 1

\* C6 witness: Phase 1 returns two tasks of one class and subject, placed on
\* different days of a week whose days have several periods.
C6_Witness ==
    /\ Done /\ phase = 1 /\ response.status = "success"
    /\ request.config.numberOfPeriods >= 2
    /\ \E c \in AllClassIds(request), sid \in AllSubjectIds :
        \E d, e \in Days(request) :
            /\ d # e
            /\ PlacedOn(c, sid, d) # {}
            /\ PlacedOn(c, sid, e) # {}

\* Scenario S6 within the bounds: one class, one subject,
\* numberOfSingles = number of days + 1, and enough free periods.
S6Input ==
    /\ Len(request.lessons) = 1
    /\ Len(request.lessons[1].classIds) = 1
    /\ request.lessons[1].subjectIds # <<>>
    /\ request.lessons[1].numberOfSingles = request.config.numDays + 1
    /\ request.lessons[1].numberOfDoubles = 0
    /\ request.config.numDays * request.config.numberOfPeriods
            >= request.lessons[1].numberOfSingles

\* The hard one-per-(class, subject, day) constraints of the current model
\* that are not also conflict constraints.
HardDistributionInModel ==
    model.constraints
        \cap (DistributionConstraints(request, task_vars, task_info, 1)
              \ AddConstraints(request, task_vars, task_info).constraints)

\* C7: the models of Phase 2 and Phase 3 hold no hard distribution limit, so on
\* an S6 input a solve whose last Solve ended OPTIMAL returns every task
\* placed, unplacedTasks = [] and a day with two tasks of the subject.
C7_RelaxedPhases ==
    /\ phase \in {2, 3} => HardDistributionInModel = {}
    /\ (Done /\ S6Input /\ solver.status = OPTIMAL) =>
            /\ Unplaced = <<>>
            /\ Len(Slots) = request.lessons[1].numberOfSingles
            /\ \E d \in Days(request) :
                Cardinality(PlacedOn(request.lessons[1].classIds[1],
                                     Head(request.lessons[1].subjectIds), d)) >= 2

\* C9: the model of each phase is satisfiable by the all-zero assignment, every
\* accepted assignment gives each task one start cell when its presence is 1
\* and none when it is 0, and no Solve ends INFEASIBLE.
C9_PresenceLinkage ==
    /\ \A ct \in model.constraints : Satisfies({}, ct)
    /\ solver.status # INFEASIBLE
    /\ Held => \A t \in Tasks :
                 Cardinality(TaskSlotVars(request, task_vars, t) \cap Ones)
                    = (IF PresenceVar(t.task_idx) \in Ones THEN 1 ELSE 0)

\* C9 witness: an over-constrained input solved OPTIMAL with one task placed
\* and another unplaced.
C9_Witness ==
    /\ Held /\ solver.status = OPTIMAL
    /\ \E t, u \in Tasks :
        /\ PresenceVar(t.task_idx) \in Ones
        /\ PresenceVar(u.task_idx) \notin Ones
        /\ Len(t.classIds) > 0 /\ Len(u.classIds) > 0

\* C10: every response with status "success" has success = true and an empty
\* unplacedTasks list.
C10_SuccessEnvelope ==
    (Done /\ response.status = "success") =>
        (response.success /\ Unplaced = <<>>)

\* C8: scenario S1, solved to optimality, returns exactly 4 slot records
\* covering the 4 periods of the day, and unplacedTasks = [].
C8_ScenarioS1 ==
    (Done /\ request \in S1Requests /\ solver.status = OPTIMAL) =>
        /\ Len(Slots) = 4
        /\ {Slots[i].periodNumber : i \in 1..Len(Slots)} = 1..4
        /\ Unplaced = <<>>

\* C11: whenever solve returns a solution with at least one task placed and at
\* least one unplaced (here after a last Solve that ended OPTIMAL or FEASIBLE
\* alone), the response has success = true and status = "partial".
C11_PartialEnvelope ==
    (Done /\ Slots # <<>> /\ Unplaced # <<>> /\ solver.status \in {OPTIMAL, FEASIBLE}) =>
        (response.success /\ response.status = "partial")

\* The unplaced records a response owes an input none of whose tasks is placed:
\* one per (task, class).
AllTaskClassPairs ==
    SumOver(1..Len(request.lessons),
            [i \in 1..Len(request.lessons) |->
                TasksOfLesson(request.lessons[i]) * Len(request.lessons[i].classIds)])

\* C12: whenever no phase yields a usable solution the response has
\* success = false, status = "failed", slots = [] and one unplacedTasks record
\* per (task, class) for every task of the input (here for the inputs all of
\* whose tasks have place variables alone).
C12_FailedEnvelope ==
    (Done /\ response.status = "failed" /\ Len(task_info) = TotalTasks(request.lessons)) =>
        /\ ~response.success
        /\ Slots = <<>>
        /\ Len(Unplaced) = AllTaskClassPairs

\* The steps of solve, as (pc, pc') pairs.
DriverSteps ==
    {<<"init", "phase1">>, <<"phase1", "done">>, <<"phase1", "rebuild2">>,
     <<"rebuild2", "phase2">>, <<"phase2", "done">>, <<"phase2", "rebuild3">>,
     <<"rebuild3", "phase3">>, <<"phase3", "done">>}

\* A Solve outcome that is a solution with every task placed.
FullyPlaced(out) ==
    /\ out.status \in {OPTIMAL, FEASIBLE}
    /\ \A t \in Tasks : PresenceVar(t.task_idx) \in out.solution.ones

\* C13: solve follows Init -> Phase1 -> (Done | Phase2) -> (Done | Phase3) -> Done:
\* the phases run at most once and in increasing order, Phase 2 is entered only
\* after a Phase 1 that left a task unplaced, Phase 3 only after a Phase 2 that
\* did not end fully placed, a phase that ends with a fully placed solution
\* returns success, one response is returned, and the phases are announced to
\* stage_callback in the order 1, 2, 3.
C13_PhaseOrder ==
    [][/\ <<pc, pc'>> \in DriverSteps
       /\ phase' \in {phase, phase + 1}
       /\ phase' = phase + 1 <=> pc' \in {"phase1", "phase2", "phase3"}
       /\ pc' = "rebuild2" =>
            (pc = "phase1" /\ solver'.status \in {OPTIMAL, FEASIBLE} /\ ~FullyPlaced(solver'))
       /\ pc' = "rebuild3" => (pc = "phase2" /\ ~FullyPlaced(solver'))
       /\ (pc \in {"phase1", "phase2", "phase3"} /\ FullyPlaced(solver')) =>
            (pc' = "done" /\ response'.success /\ response'.status = "success")
       /\ response' # response <=> pc' = "done"
       /\ pc' = "done" => (response = NoResponse /\ response' # NoResponse)
       /\ stages' = [i \in 1..phase' |-> i]
      ]_vars

\* C13 witness: a solve that ran the three phases in order and whose Phase 3
\* placed every task.
C13_Witness ==
    /\ Done /\ phase = 3 /\ stages = <<1, 2, 3>>
    /\ FullyPlaced(solver) /\ Tasks # {}
    /\ response.status = "success"

\* C14: with allowRelaxation = false solve runs the Phase-1 model alone and
\* never builds the model of Phase 2 or Phase 3.
C14_AllowRelaxation ==
    ~request.allowRelaxation => phase <= 1

\* The sum of the time budgets configured for the Solves so far.
TotalBudget == SumOver(1..Len(budgets), budgets)

\* C15: the sum of the max_time_in_seconds configured over the phases of one
\* solve is at most the request's maxTimeLimit.
C15_TimeLimit ==
    TotalBudget <= request.maxTimeLimit

\* C16: the random seed 42 is set on the solver of every phase.
C16_SeedEveryPhase ==
    pc \in {"phase1", "phase2", "phase3"} => parameters.random_seed = <<RandomSeed>>

\* The step-by-step driver and solve taken as one call agree.
DriverIsARun ==
    Done => [stages |-> stages, response |-> response] \in SolveRuns(request)

\* ------------------------------------------------------------ properties of the jobs
Terminal(job_id) == active_jobs[job_id].status \in {"completed", "failed"}

StatusSteps ==
    {<<"starting", "processing">>, <<"processing", "completed">>,
     <<"processing", "failed">>}

\* C17: the status of every job only moves starting -> processing ->
\* (completed | failed), no other status is stored, and once a job is completed
\* or failed its status, result and error never change again (here for the steps
\* outside the except block alone).
C17_JobLifecycle ==
    [][\A j \in DOMAIN active_jobs' :
        IF j \in DOMAIN active_jobs
        THEN /\ \/ active_jobs'[j].status = active_jobs[j].status
                \/ <<active_jobs[j].status, active_jobs'[j].status>> \in StatusSteps
             /\ (Terminal(j) /\ worker[j].pc # "failed") =>
                    /\ active_jobs'[j].status = active_jobs[j].status
                    /\ active_jobs'[j].result = active_jobs[j].result
                    /\ active_jobs'[j].error = active_jobs[j].error
        ELSE active_jobs'[j].status = "starting"
      ]_vars

\* C18: every reply of get_job_status is consistent: completed comes with a
\* result and completedAt, failed with an error, starting and processing with
\* neither result nor error (here for the jobs whose engine raised nothing
\* alone).
C18_ConsistentSnapshot ==
    (loop.pc = "reply" /\ worker[loop.job].pc \notin {"failed"}
                      /\ active_jobs[loop.job].status # "failed") =>
        /\ loop.reply["status"] = "completed" =>
                (loop.reply["result"] # <<>> /\ loop.reply["completedAt"] # <<>>)
        /\ loop.reply["status"] = "failed" => loop.reply["error"] # <<>>
        /\ loop.reply["status"] \in {"starting", "processing"} =>
                (loop.reply["result"] = <<>> /\ loop.reply["error"] = <<>>)

\* C19: under fair scheduling every job created by start_solve eventually is
\* completed or failed, an exception raised in the engine makes the job failed
\* with the error recorded, and start_solve returns the jobId whatever the
\* worker does.
C19_JobLiveness ==
    /\ \A j \in Jobs :
        (j \in DOMAIN active_jobs) ~> (j \in DOMAIN active_jobs /\ Terminal(j))
    /\ \A j \in Jobs :
        (worker[j].pc = "failed") ~>
            (/\ j \in DOMAIN active_jobs
             /\ active_jobs[j].status = "failed"
             /\ active_jobs[j].error # <<>>)
    /\ [](\A j \in DOMAIN active_jobs : worker[j].pc = "finished" => Terminal(j))
    /\ [](loop.pc = "return" => ENABLED ReturnJobId)

\* C19 witness: a job whose engine raised has ended failed with its error text,
\* and start_solve has returned the id of a job still starting.
C19_Witness ==
    /\ \E j \in DOMAIN active_jobs :
        /\ worker[j].pc = "finished"
        /\ active_jobs[j].status = "failed" /\ active_jobs[j].error # <<>>
    /\ \E j \in DOMAIN active_jobs : j \in returned /\ active_jobs[j].status = "starting"

\* C20: a step of a job's worker leaves the entry and the worker of every other
\* job, and the engine of any other solve, unchanged, and the result stored for
\* a job is the response of a run of solve on the job's own request.
C20_JobIsolation ==
    [][\A j \in Jobs :
        worker'[j] # worker[j] =>
            /\ \A k \in DOMAIN active_jobs : k # j => active_jobs'[k] = active_jobs[k]
            /\ \A k \in Jobs : k # j => worker'[k] = worker[k]
            /\ UNCHANGED enginevars
            /\ (j \in DOMAIN active_jobs /\ active_jobs'[j].result # active_jobs[j].result) =>
                    \E run \in JobRuns[Head(worker[j].request)] :
                        active_jobs'[j].result = <<run.response>>
      ]_vars

\* C20 witness: two jobs with different requests, both completed, each with a
\* result.
C20_Witness ==
    /\ Len(active_jobs) = 2
    /\ worker[1].request # worker[2].request
    /\ \A j \in {1, 2} : worker[j].pc = "finished" /\ active_jobs[j].result # <<>>

\* ------------------------------------------------------------ input validation
\* C21: a request whose config has numberOfPeriods < 2, or an interval with
\* afterPeriod outside 1..numberOfPeriods-1, is rejected before anything is
\* done with it: no model is built for it, no solver is run on it and no
\* response other than the rejection is produced.
C21_InputValidation ==
    (\/ request.config.numberOfPeriods < 2
     \/ \E a \in request.config.intervalSlots :
            a \notin 1..(request.config.numberOfPeriods - 1)) =>
        /\ pc = "init"
        /\ model.constraints = {}
        /\ task_vars = {}
        /\ solver.status = "NOT_SOLVED"

\* ------------------------------------------------------------ teachers in the slots
\* The teachers two slot records have in common.
CommonTeachers(a, b) ==
    Range(request.lessons[a.lessonId + 1].teacherIds)
        \cap Range(request.lessons[b.lessonId + 1].teacherIds)

SameCell(a, b) == a.day = b.day /\ a.periodNumber = b.periodNumber

C23_RebuildDiscipline ==
    [][(phase >= 1 /\ phase' # phase) =>
          /\ task_info' = task_info
          /\ \A i, j \in 1..Len(task_info') :
                task_info'[i].task_idx = task_info'[j].task_idx => i = j
          /\ task_vars' = task_vars
          /\ presence_vars' = presence_vars
          /\ DOMAIN var_model' = task_vars' \cup {PresenceVar(i) : i \in presence_vars'}
          /\ \A key \in DOMAIN var_model' : var_model'[key] = phase']_vars

\* C23 witness: Phase 3 runs on a rebuilt model whose task list holds a single
\* and a double of two lessons.
C23_Witness ==
    /\ pc = "phase3"
    /\ phase = 3
    /\ Len(task_info) = 2
    /\ task_info[1].type # task_info[2].type
    /\ task_info[1].lesson_idx # task_info[2].lesson_idx
    /\ \A key \in DOMAIN var_model : var_model[key] = 3

\* ------------------------------------------------------------ utilisation
\* The distinct (day, period) cells in which a teacher, or a class, is busy in
\* the slots of the response.
TeacherBusyCells(teacher_id) ==
    {<<Slots[i].day, Slots[i].periodNumber>> :
        i \in {j \in 1..Len(Slots) :
                 teacher_id \in Range(request.lessons[Slots[j].lessonId + 1].teacherIds)}}

ClassBusyCells(class_id) ==
    {<<Slots[i].day, Slots[i].periodNumber>> :
        i \in {j \in 1..Len(Slots) : Slots[j].classId = class_id}}

\* C24: the busy count behind a teacher's (a class's) utilisation in
\* _diagnose_unplaced_tasks is the number of distinct (day, period) cells in
\* which the teacher (the class) is busy in the scheduled slots; a parallel
\* lesson counts each of its cells once for the teacher, so the count never
\* exceeds days x numberOfPeriods.
C24_Utilization ==
    Done => \A i \in 1..Len(diagnosed) :
                /\ diagnosed[i].teacher_busy_count =
                      Cardinality(TeacherBusyCells(
                          request.lessons[diagnosed[i].lessonId + 1].teacherIds[1]))
                /\ diagnosed[i].class_busy_count =
                      Cardinality(ClassBusyCells(diagnosed[i].classId))
                /\ diagnosed[i].teacher_busy_count <= diagnosed[i].total_slots
                /\ diagnosed[i].class_busy_count <= diagnosed[i].total_slots

\* ------------------------------------------------------------ stats
\* C25: the stats of a response describe the model that produced it, whichever
\* phase that is: totalTasks = singlesCreated + doublesCreated = the sum over
\* the lessons of numberOfSingles + numberOfDoubles, and constraintsAdded is
\* the number of hard constraints counted for that final model alone, however
\* many rebuilds preceded it.
C25_Stats ==
    Done =>
        /\ response.stats.totalTasks =
              response.stats.singlesCreated + response.stats.doublesCreated
        /\ response.stats.totalTasks = TotalTasks(request.lessons)
        /\ response.stats.constraintsAdded =
              AddConstraints(request, task_vars, task_info).added

=============================================================================
